---- MODULE Spec2Model ----
(***************************************************************************)
(* Model of discord/create_guild.py: the CreateGuild builder, its          *)
(* CreateGuildChannel / CreateGuildRole entries and the payload            *)
(* serializers.                                                            *)
(*                                                                         *)
(* Python values are records tagged by "kind"; every kind has its own      *)
(* field names.  A dict is a sequence of entries in insertion order (the   *)
(* two tables) or a function from key strings to values (option bags).     *)
(* A call ends with NoError or with the exception it raised.               *)
(*                                                                         *)
(* The def line of add_channel (line 408) lacks a comma after "/"; the     *)
(* model reads the signature as the overloads and the docstring give it    *)
(* and translates the bodies as they are written.                          *)
(***************************************************************************)
EXTENDS Integers, Sequences, FiniteSets, TLC

\* ------------------------------------------------------------------ bounds
\* successful add_channel calls explored on one builder
MaxChannels == 2
\* successful add_role calls explored on one builder
MaxRoles == 2
\* last millisecond of the clock (the clock starts at StartMs)
MaxTime == 2

\* extra keyword options passed to one add_channel call
MaxOptions == 2

\* requests the transport receives from one builder
MaxCreates == 2

\* ------------------------------------------------------------ Python values
MISSING == [kind |-> "MISSING"]
None == [kind |-> "None"]
IntV(n) == [kind |-> "int", i |-> n]
StrV(s) == [kind |-> "str", s |-> s]
BoolV(b) == [kind |-> "bool", b |-> b]
Bytes(s) == [kind |-> "bytes", data |-> s]
\* a member of one of discord.enums' classes, or a flags object; its wire
\* value is named, not numbered (the numbers live in discord/enums.py)
Enum(c, v) == [kind |-> "enum", cls |-> c, value |-> v]
\* discord.Object / any user snowflake: something with an id that is no role
Snowflake(n) == [kind |-> "Object", id |-> n]
PermissionOverwrite(a, d) == [kind |-> "PermissionOverwrite", allow |-> a, deny |-> d]
Permissions(v) == [kind |-> "Permissions", value |-> v]
Colour(v) == [kind |-> "Colour", value |-> v]
\* a dict literal given as an argument: its items in insertion order
Mapping(items) == [kind |-> "dict", items |-> items]

\* Names bound in the module's namespace when it runs: the imports of lines
\* 28-36 and the three classes.  The names imported under TYPE_CHECKING
\* (lines 38-45: Snowflake, ForumTag, Colour, EmojiInputType, Role,
\* ConnectionState, PermissionOverwrite, Permissions) are not bound.
RuntimeNames ==
    { "abc", "VerificationLevel", "NotificationLevel", "ContentFilter", "ChannelType",
      "VideoQualityMode", "ForumLayoutType", "ForumOrderType", "SystemChannelFlags",
      "Guild", "PartialEmoji", "_EmojiTag", "MISSING", "_bytes_to_base64_data",
      "time_snowflake", "utcnow", "CreateGuildRole", "CreateGuildChannel", "CreateGuild" }

\* Python's truth test, as `if value and ...` / `x or y` apply it.
Truthy(v) ==
    CASE v.kind = "None" -> FALSE
      [] v.kind = "MISSING" -> FALSE
      [] v.kind = "int" -> v.i # 0
      [] v.kind = "str" -> v.s # ""
      [] v.kind = "bool" -> v.b
      [] v.kind = "bytes" -> v.data # ""
      [] v.kind = "dict" -> v.items # << >>
      [] OTHER -> TRUE

\* isinstance(v, cls) for the classes the module tests against.
IsInstance(v, cls) ==
    CASE cls = "Mapping" -> v.kind = "dict"
      [] cls = "int" -> v.kind \in {"int", "bool"}
      [] cls = "str" -> v.kind = "str"
      [] cls = "bytes" -> v.kind = "bytes"
      [] cls \in {"CreateGuildChannel", "CreateGuildRole", "PermissionOverwrite"} -> v.kind = cls
      [] OTHER -> v.kind = "enum" /\ v.cls = cls

\* dict.get(key, default) / the value dict.pop(key, default) returns
Get(d, key, default) == IF key \in DOMAIN d THEN d[key] ELSE default
\* the dict after dict.pop(key, default)
Pop(d, key) == [k \in DOMAIN d \ {key} |-> d[k]]
\* the dict after d[key] = value
Put(d, key, value) == [k \in DOMAIN d \cup {key} |-> IF k = key THEN value ELSE d[k]]
EmptyDict == [k \in {} |-> None]

\* ------------------------------------------------------------------- state
VARIABLES
    now,             \* utcnow(), in milliseconds since the Discord epoch
    nextOid,         \* identity of the next object Python allocates
    settings,        \* the builder's scalar attributes (name, icon, levels, flags)
    channels,        \* self._channels: entries in insertion order, keyed by .id
    roles,           \* self._roles: entries in insertion order, keyed by .id
    system_channel,  \* self._system_channel
    afk_channel,     \* self._afk_channel
    last,            \* the call that has just returned to the caller, or Idle
    added_channels,  \* history: the channels successful add_channel calls returned
    added_roles,     \* history: the roles successful add_role calls returned
    state,           \* self._state: MISSING until _with_state is called
    requests         \* history: the payloads the transport's create_guild received

vars == << now, nextOid, settings, channels, roles, system_channel, afk_channel,
           last, added_channels, added_roles, state, requests >>

\* first millisecond of the clock
StartMs == 1
\* utils.time_snowflake(utcnow()): the millisecond count shifted left 22 bits
time_snowflake(ms) == ms * 4194304

\* ------------------------------------------------------------- exceptions
NoError == [exc |-> "none", text |-> "", id |-> 0]
Raise(e, text) == [exc |-> e, text |-> text, id |-> 0]
\* an exception whose message formats an id into the text
RaiseId(e, text, n) == [exc |-> e, text |-> text, id |-> n]

\* ------------------------------------------------------ CreateGuildChannel
ChannelType(n) == Enum("ChannelType", n)

\* CreateGuildChannel.__init__: the object Python allocates as `oid`, built at
\* millisecond `ms`
CreateGuildChannel(oid, ms, channel_type, name, position, overwrites, options) ==
    [ kind |-> "CreateGuildChannel", oid |-> oid,
      id |-> time_snowflake(ms),
      type |-> channel_type,
      name |-> name,
      position |-> position,
      overwrites |-> overwrites,
      options |-> options ]

\* CreateGuildChannel._to_dict
CreateGuildChannel_to_dict(c) ==
    LET base == {"id", "type", "name"} \cup DOMAIN c.options
        keys == base
                \cup (IF c.position # MISSING THEN {"position"} ELSE {})
                \cup (IF Truthy(c.overwrites) THEN {"permission_overwrites"} ELSE {})
    IN [ k \in keys |->
           CASE k = "position" -> c.position
             [] k = "permission_overwrites" -> c.overwrites
             [] k \in DOMAIN c.options -> c.options[k]
             [] k = "id" -> IntV(c.id)
             [] k = "type" -> StrV(c.type.value)
             [] OTHER -> c.name ]

\* --------------------------------------------------------- CreateGuildRole
\* the keyword parameters of CreateGuildRole.__init__
RoleInitKeywords ==
    {"colour", "hoist", "icon", "unicode_emoji", "position", "permissions", "tags", "mentionable"}

\* CreateGuildRole.__init__ called as CreateGuildRole(name, **options)
CreateGuildRole(oid, ms, name, options) ==
    [ kind |-> "CreateGuildRole", oid |-> oid,
      id |-> time_snowflake(ms),
      name |-> name,
      colour |-> Get(options, "colour", MISSING),
      hoist |-> Get(options, "hoist", MISSING),
      icon |-> Get(options, "icon", MISSING),
      unicode_emoji |-> Get(options, "unicode_emoji", MISSING),
      position |-> Get(options, "position", MISSING),
      permissions |-> Get(options, "permissions", MISSING),
      tags |-> Get(options, "tags", MISSING),
      mentionable |-> Get(options, "mentionable", MISSING) ]

\* the kinds of value that have a .value attribute
HasValue(v) == v.kind \in {"enum", "Permissions", "Colour"}

\* CreateGuildRole._to_dict: [exc, dict]
CreateGuildRole_to_dict(r) ==
    IF ~HasValue(r.permissions)
    THEN [exc |-> "AttributeError", dict |-> EmptyDict]
    ELSE IF r.colour # MISSING /\ ~HasValue(r.colour)
    THEN [exc |-> "AttributeError", dict |-> EmptyDict]
    ELSE
      LET keys == {"id", "name", "hoist", "permissions"}
                  \cup (IF r.colour # MISSING THEN {"color"} ELSE {})
                  \cup (IF r.icon # MISSING THEN {"icon"} ELSE {})
                  \cup (IF r.unicode_emoji # MISSING THEN {"unicode_emoji"} ELSE {})
                  \cup (IF Truthy(r.tags) THEN {"tags"} ELSE {})
                  \cup (IF r.mentionable # MISSING THEN {"mentionable"} ELSE {})
      IN [ exc |-> "none",
           dict |-> [ k \in keys |->
             CASE k = "id" -> IntV(r.id)
               [] k = "name" -> r.name
               [] k = "hoist" -> r.hoist
               [] k = "permissions" -> IntV(r.permissions.value)
               [] k = "color" -> IntV(r.colour.value)
               [] k = "icon" -> r.icon
               [] k = "unicode_emoji" -> r.unicode_emoji
               [] k = "tags" -> r.tags
               [] OTHER -> r.mentionable ] ]

\* ------------------------------------------------------------ the tables
\* the keys of a table
Keys(tbl) == { tbl[i].id : i \in DOMAIN tbl }
\* tbl[key], for a key of the table
Lookup(tbl, key) == tbl[CHOOSE i \in DOMAIN tbl : tbl[i].id = key]
\* tbl[obj.id] = obj: a new key is appended, a key already there keeps its
\* place and gets the new value
DictSet(tbl, obj) ==
    IF obj.id \in Keys(tbl)
    THEN [ i \in DOMAIN tbl |-> IF tbl[i].id = obj.id THEN obj ELSE tbl[i] ]
    ELSE Append(tbl, obj)

\* ------------------------------------------------- CreateGuild.add_channel
text == ChannelType("text")
voice == ChannelType("voice")
stage_voice == ChannelType("stage_voice")
category == ChannelType("category")
forum == ChannelType("forum")
\* a member of ChannelType the builder does not support
news == ChannelType("news")

SupportedTypes == {text, voice, stage_voice, category, forum}

\* kwargs_per_type: the whitelist of option names of each channel type
\* a whitelist table that also has a row for news channels
kwargs_per_type_WithNews ==
    [ t \in SupportedTypes \cup {news} |->
        CASE t \in {text, news} ->
               << "category", "news", "topic", "slowmode_delay", "nsfw", "overwrites",
                  "default_auto_archive_duration", "default_thread_slowmode_delay" >>
          [] t \in {voice, stage_voice} ->
               << "category", "bitrate", "user_limit", "rtc_region", "video_quality_mode",
                  "overwrites" >>
          [] t = category -> << "overwrites" >>
          [] OTHER ->
               << "topic", "category", "slowmode_delay", "nsfw", "overwrites",
                  "default_auto_archive_duration", "default_thread_slowmode_delay",
                  "default_sort_order", "default_reaction_emoji", "default_layout",
                  "available_tags" >> ]

kwargs_per_type ==
    [ t \in SupportedTypes |->
        CASE t = text ->
               << "category", "news", "topic", "slowmode_delay", "nsfw", "overwrites",
                  "default_auto_archive_duration", "default_thread_slowmode_delay" >>
          [] t = voice ->
               << "category", "bitrate", "user_limit", "rtc_region", "video_quality_mode",
                  "overwrites" >>
          [] t = stage_voice ->
               << "category", "bitrate", "user_limit", "rtc_region", "video_quality_mode",
                  "overwrites" >>
          [] t = category -> << "overwrites" >>
          [] OTHER ->
               << "topic", "category", "slowmode_delay", "nsfw", "overwrites",
                  "default_auto_archive_duration", "default_thread_slowmode_delay",
                  "default_sort_order", "default_reaction_emoji", "default_layout",
                  "available_tags" >> ]

Range(seq) == { seq[i] : i \in DOMAIN seq }

\* abc._Overwrites.ROLE / abc._Overwrites.MEMBER
Overwrites_ROLE == StrV("_Overwrites.ROLE")
Overwrites_MEMBER == StrV("_Overwrites.MEMBER")

\* one pass of the loop body of lines 504-512: the record built for an item
OverwritePayload(item) ==
    [ allow |-> item[2].allow, deny |-> item[2].deny, id |-> item[1].id,
      type |-> IF IsInstance(item[1], "CreateGuildRole") THEN Overwrites_ROLE
               ELSE Overwrites_MEMBER ]

\* the list `perms` the loop of lines 499-512 builds
perms(overwrites) ==
    [ i \in DOMAIN overwrites.items |-> OverwritePayload(overwrites.items[i]) ]

\* lines 494-512: how the overwrites argument is checked.  The loop body
\* starts by evaluating isinstance(perm, PermissionOverwrite), which looks the
\* class name up in the module namespace.
OverwritesCheck(overwrites) ==
    IF overwrites = MISSING THEN NoError
    ELSE IF ~IsInstance(overwrites, "Mapping")
    THEN Raise("TypeError", "overwrites parameter expects a dict.")
    ELSE IF overwrites.items = << >> THEN NoError
    ELSE IF "PermissionOverwrite" \notin RuntimeNames
    THEN Raise("NameError", "name 'PermissionOverwrite' is not defined")
    ELSE IF \E i \in DOMAIN overwrites.items :
                ~IsInstance(overwrites.items[i][2], "PermissionOverwrite")
    THEN Raise("TypeError", "Expected PermissionOverwrite received")
    ELSE NoError

\* a check that accepts every channel of the table as a parent
CategoryCheck_AnyChannel(tbl, parent_id) ==
    IF parent_id \notin Keys(tbl)
    THEN RaiseId("ValueError", "No such category with ID", parent_id)
    ELSE NoError

\* lines 520-526: the checks made on a truthy parent_id
CategoryCheck(tbl, parent_id) ==
    IF parent_id \notin Keys(tbl)
    THEN RaiseId("ValueError", "No such category with ID", parent_id)
    ELSE IF Lookup(tbl, parent_id).type # category
    THEN RaiseId("ValueError", "Channel with ID is not a category", parent_id)
    ELSE NoError

\* lines 517-526: the branch taken by every type but category
\* [err, options, kwargs]
ParentOptions(tbl, kwargs) ==
    LET cat == Get(kwargs, "category", MISSING)
        rest == Pop(kwargs, "category")
        parent_id == IF Truthy(cat) THEN IntV(cat.id) ELSE None
    IN IF Truthy(cat) /\ "id" \notin DOMAIN cat
       THEN [ err |-> Raise("AttributeError", "object has no attribute 'id'"),
              options |-> EmptyDict, kwargs |-> rest ]
       ELSE IF Truthy(parent_id)
       THEN [ err |-> CategoryCheck(tbl, parent_id.i),
              options |-> Put(EmptyDict, "parent_id", parent_id),
              kwargs |-> rest ]
       ELSE [ err |-> NoError, options |-> EmptyDict, kwargs |-> rest ]

\* the payload shape PartialEmoji._to_forum_tag_payload gives
ForumTagPayload(v) == [kind |-> "forum_tag_payload", of |-> v]

\* lines 528-558: the branch `elif channel_type is ChannelType.forum`
ForumOptions(kwargs) ==
    LET sort == Get(kwargs, "default_sort_order", MISSING)
        emoji == Get(kwargs, "default_reaction_emoji", MISSING)
        layout == Get(kwargs, "default_layout", MISSING)
        tags == Get(kwargs, "available_tags", MISSING)
        rest == [ k \in DOMAIN kwargs \ {"default_sort_order", "default_reaction_emoji",
                                         "default_layout", "available_tags"} |-> kwargs[k] ]
        keys == (IF sort # MISSING THEN {"default_sort_order"} ELSE {})
                \cup (IF emoji # MISSING THEN {"default_reaction_emoji"} ELSE {})
                \cup (IF layout # MISSING THEN {"default_forum_layout"} ELSE {})
                \cup (IF tags # MISSING THEN {"available_tags"} ELSE {})
        err == IF sort # MISSING /\ ~IsInstance(sort, "ForumOrderType")
               THEN Raise("TypeError", "default_sort_order parameter must be a ForumOrderType")
               ELSE IF emoji # MISSING /\ emoji.kind \notin {"_EmojiTag", "str"}
               THEN Raise("ValueError", "default_reaction_emoji parameter must be either Emoji, PartialEmoji, or str")
               ELSE IF layout # MISSING /\ ~IsInstance(layout, "ForumLayoutType")
               THEN Raise("TypeError", "default_layout parameter must be a ForumLayoutType")
               ELSE NoError
    IN [ err |-> err,
         options |-> IF err # NoError THEN EmptyDict ELSE
            [ k \in keys |->
                CASE k = "default_sort_order" -> StrV(sort.value)
                  [] k = "default_reaction_emoji" -> ForumTagPayload(emoji)
                  [] k = "default_forum_layout" -> StrV(layout.value)
                  [] OTHER -> tags ],
         kwargs |-> rest ]

\* lines 561-570: the branch `elif channel_type in (stage_voice, voice)`
VoiceOptions(kwargs) ==
    LET rtc == Get(kwargs, "rtc_region", MISSING)
        vqm == Get(kwargs, "video_quality_mode", MISSING)
        rest == [ k \in DOMAIN kwargs \ {"rtc_region", "video_quality_mode"} |-> kwargs[k] ]
        keys == (IF rtc # MISSING THEN {"rtc_region"} ELSE {})
                \cup (IF vqm # MISSING THEN {"video_quality_mode"} ELSE {})
        err == IF vqm # MISSING /\ ~IsInstance(vqm, "VideoQualityMode")
               THEN Raise("TypeError", "video_quality_mode must be of type VideoQualityMode")
               ELSE NoError
    IN [ err |-> err,
         options |-> IF err # NoError THEN EmptyDict ELSE
            [ k \in keys |-> IF k = "rtc_region" THEN rtc ELSE StrV(vqm.value) ],
         kwargs |-> rest ]

\* lines 515-570: the if / elif / elif chain that starts the options
TypedOptions(tbl, channel_type, kwargs) ==
    IF channel_type # category THEN ParentOptions(tbl, kwargs)
    ELSE IF channel_type = forum THEN ForumOptions(kwargs)
    ELSE IF channel_type \in {stage_voice, voice} THEN VoiceOptions(kwargs)
    ELSE [ err |-> NoError, options |-> EmptyDict, kwargs |-> kwargs ]

\* a copy loop that runs over every argument still in kwargs
WhitelistedOptions_AllKwargs(channel_type, options, kwargs) ==
    [ k \in DOMAIN options \cup DOMAIN kwargs |->
        IF k \in DOMAIN kwargs THEN kwargs[k] ELSE options[k] ]

\* a copy loop that takes an explicit None for an argument not passed
WhitelistedOptions_SkipsNone(channel_type, options, kwargs) ==
    LET copied == { k \in Range(kwargs_per_type[channel_type]) :
                      Get(kwargs, k, MISSING) \notin {MISSING, None} }
    IN [ k \in DOMAIN options \cup copied |->
           IF k \in copied THEN kwargs[k] ELSE options[k] ]

\* lines 573-576: the whitelisted arguments still in kwargs are copied
WhitelistedOptions(channel_type, options, kwargs) ==
    LET copied == { k \in Range(kwargs_per_type[channel_type]) :
                      Get(kwargs, k, MISSING) # MISSING }
    IN [ k \in DOMAIN options \cup copied |->
           IF k \in copied THEN kwargs[k] ELSE options[k] ]

\* the property setters of lines 260-264 and 271-275: [err, value]
ChannelSetter(current, value, what) ==
    IF Truthy(value) /\ ~IsInstance(value, "CreateGuildChannel")
    THEN [ err |-> Raise("TypeError", what), value |-> current ]
    ELSE [ err |-> NoError, value |-> value ]

\* a test that takes the system_channel flag from voice channels
MarksSystemChannel_Voice(channel_type, kwargs) ==
    channel_type = voice /\ Truthy(Get(kwargs, "system_channel", BoolV(FALSE)))

\* lines 579-581: the new text channel becomes the system channel
MarksSystemChannel(channel_type, kwargs) ==
    channel_type = text /\ Truthy(Get(kwargs, "system_channel", BoolV(FALSE)))

\* a test that takes the afk_channel flag from channels of every kind
MarksAfkChannel_AnyKind(channel_type, kwargs) ==
    Truthy(Get(kwargs, "afk_channel", BoolV(FALSE)))

\* lines 582-584: the new voice channel becomes the AFK channel
MarksAfkChannel(channel_type, kwargs) ==
    channel_type = voice /\ Truthy(Get(kwargs, "afk_channel", BoolV(FALSE)))

\* the arguments of one add_channel call
ChannelCall(channel_type, name, position, overwrites, kwargs) ==
    [ channel_type |-> channel_type, name |-> name, position |-> position,
      overwrites |-> overwrites, kwargs |-> kwargs ]

\* what add_channel leaves when it raises `err`
ChannelFailure(tbl, sys, afk, err) ==
    [ err |-> err, channels |-> tbl, system_channel |-> sys, afk_channel |-> afk,
      channel |-> None ]

\* lines 578-587, reached with the options complete
StoreChannel(tbl, sys, afk, oid, ms, a, options, kwargs) ==
    LET channel == CreateGuildChannel(oid, ms, a.channel_type, a.name, a.position,
                       IF a.overwrites = MISSING THEN Mapping(<< >>) ELSE a.overwrites,
                       options)
        newsys == IF MarksSystemChannel(a.channel_type, kwargs)
                  THEN ChannelSetter(sys, channel, "system_channel must be a CreateGuildChannel").value
                  ELSE sys
        newafk == IF MarksAfkChannel(a.channel_type, kwargs)
                  THEN ChannelSetter(afk, channel, "afk_channel must be a CreateGuildChannel").value
                  ELSE afk
    IN [ err |-> NoError, channels |-> DictSet(tbl, channel),
         system_channel |-> newsys, afk_channel |-> newafk, channel |-> channel ]

\* an add_channel that stores the channel before it looks at the category
add_channel_StoreFirst(tbl, sys, afk, oid, ms, a) ==
    IF a.channel_type \notin DOMAIN kwargs_per_type
    THEN ChannelFailure(tbl, sys, afk, Raise("TypeError", "Invalid channel type"))
    ELSE IF OverwritesCheck(a.overwrites) # NoError
    THEN ChannelFailure(tbl, sys, afk, OverwritesCheck(a.overwrites))
    ELSE LET typed == TypedOptions(tbl, a.channel_type, a.kwargs)
             stored == StoreChannel(tbl, sys, afk, oid, ms, a,
                           WhitelistedOptions(a.channel_type, EmptyDict, typed.kwargs),
                           typed.kwargs)
         IN IF typed.err # NoError
            THEN [stored EXCEPT !.err = typed.err, !.channel = None]
            ELSE StoreChannel(tbl, sys, afk, oid, ms, a,
                     WhitelistedOptions(a.channel_type, typed.options, typed.kwargs),
                     typed.kwargs)

\* CreateGuild.add_channel (lines 479-587) on a builder whose table and
\* references are tbl, sys, afk: [err, channels, system_channel, afk_channel,
\* channel]
add_channel(tbl, sys, afk, oid, ms, a) ==
    IF a.channel_type \notin DOMAIN kwargs_per_type
    THEN ChannelFailure(tbl, sys, afk, Raise("TypeError", "Invalid channel type"))
    ELSE IF OverwritesCheck(a.overwrites) # NoError
    THEN ChannelFailure(tbl, sys, afk, OverwritesCheck(a.overwrites))
    ELSE LET typed == TypedOptions(tbl, a.channel_type, a.kwargs)
         IN IF typed.err # NoError
            THEN ChannelFailure(tbl, sys, afk, typed.err)
            ELSE StoreChannel(tbl, sys, afk, oid, ms, a,
                     WhitelistedOptions(a.channel_type, typed.options, typed.kwargs),
                     typed.kwargs)

\* ---------------------------------------------------- CreateGuild.add_role
\* utils._bytes_to_base64_data
bytes_to_base64_data(b) == StrV("data:image/png;base64," \o b.data)

\* the arguments of one add_role call
RoleCall(name, permissions, color, colour, hoist, display_icon, mentionable) ==
    [ name |-> name, permissions |-> permissions, color |-> color, colour |-> colour,
      hoist |-> hoist, display_icon |-> display_icon, mentionable |-> mentionable ]

\* line 655: colour or color or Colour.default(); [err, value]
ActualColour(a) ==
    IF Truthy(a.colour) THEN [ err |-> NoError, value |-> a.colour ]
    ELSE IF Truthy(a.color) THEN [ err |-> NoError, value |-> a.color ]
    ELSE IF "Colour" \notin RuntimeNames
    THEN [ err |-> Raise("NameError", "name 'Colour' is not defined"), value |-> None ]
    ELSE [ err |-> NoError, value |-> Colour(0) ]

\* lines 649-671: the options dict add_role builds, given the colour
RoleOptions(a, actual_colour) ==
    LET keys == {"permissions", "color"}
                \cup (IF a.hoist # MISSING THEN {"hoist"} ELSE {})
                \cup (IF a.display_icon # MISSING
                      THEN IF IsInstance(a.display_icon, "bytes") THEN {"icon"}
                           ELSE {"unicode_emoji"}
                      ELSE {})
                \cup (IF a.mentionable # MISSING THEN {"mentionable"} ELSE {})
    IN [ k \in keys |->
           CASE k = "permissions" ->
                  IF a.permissions # MISSING THEN StrV(ToString(a.permissions.value))
                  ELSE StrV("0")
             [] k = "color" ->
                  IF IsInstance(actual_colour, "int") THEN actual_colour
                  ELSE IntV(actual_colour.value)
             [] k = "hoist" -> a.hoist
             [] k = "icon" -> bytes_to_base64_data(a.display_icon)
             [] k = "unicode_emoji" -> a.display_icon
             [] OTHER -> a.mentionable ]

\* what add_role leaves when it raises `err`
RoleFailure(tbl, err) == [ err |-> err, roles |-> tbl, role |-> None ]

\* lines 673-678: the call CreateGuildRole(name, **options) and the store
StoreRole(tbl, oid, ms, a, options) ==
    IF ~(DOMAIN options \subseteq RoleInitKeywords)
    THEN RoleFailure(tbl, Raise("TypeError", "__init__() got an unexpected keyword argument"))
    ELSE LET role == CreateGuildRole(oid, ms,
                         IF a.name = MISSING THEN StrV("new role") ELSE a.name, options)
         IN [ err |-> NoError, roles |-> DictSet(tbl, role), role |-> role ]

\* CreateGuild.add_role (lines 649-678): [err, roles, role]
add_role(tbl, oid, ms, a) ==
    IF ActualColour(a).err # NoError THEN RoleFailure(tbl, ActualColour(a).err)
    ELSE StoreRole(tbl, oid, ms, a, RoleOptions(a, ActualColour(a).value))

\* ---------------------------------------------------- CreateGuild.__init__
\* the arguments of one construction
GuildArgs(name, icon, afk_timeout, afk, sys, flags, verification, notifications, filter) ==
    [ name |-> name, icon |-> icon, afk_timeout |-> afk_timeout,
      afk_channel |-> afk, system_channel |-> sys,
      system_channel_flags |-> flags, verification_level |-> verification,
      default_message_notifications |-> notifications,
      explicit_content_filter |-> filter ]

\* the `if x and not isinstance(x, cls)` tests of lines 218-232, in order
CreateGuild_init(a) ==
    IF Truthy(a.system_channel_flags) /\ ~IsInstance(a.system_channel_flags, "SystemChannelFlags")
    THEN Raise("TypeError", "system_channel_flags must be a SystemChannelFlags")
    ELSE IF Truthy(a.verification_level) /\ ~IsInstance(a.verification_level, "VerificationLevel")
    THEN Raise("TypeError", "verification_level must be a VerificationLevel")
    ELSE IF Truthy(a.default_message_notifications)
            /\ ~IsInstance(a.default_message_notifications, "NotificationLevel")
    THEN Raise("TypeError", "default_message_notifications must be a NotificationLevel")
    ELSE IF Truthy(a.explicit_content_filter)
            /\ ~IsInstance(a.explicit_content_filter, "ContentFilter")
    THEN Raise("TypeError", "explicit_content_filter must be a ContentFilter")
    ELSE NoError

\* the scalar attributes __init__ stores (lines 211-230)
SettingsOf(a) ==
    [ name |-> a.name, icon |-> a.icon, afk_timeout |-> a.afk_timeout,
      system_channel_flags |-> a.system_channel_flags,
      verification_level |-> a.verification_level,
      default_message_notifications |-> a.default_message_notifications,
      explicit_content_filter |-> a.explicit_content_filter ]

\* ---------------------------------------------------- CreateGuild._to_dict
\* the first attribute access of _to_dict that fails, if one does
GuildDictError(st, tbl, rls, sys, afk) ==
    IF ~HasValue(st.verification_level) \/ ~HasValue(st.default_message_notifications)
       \/ ~HasValue(st.explicit_content_filter)
    THEN Raise("AttributeError", "object has no attribute 'value'")
    ELSE IF st.system_channel_flags # None /\ ~HasValue(st.system_channel_flags)
    THEN Raise("AttributeError", "object has no attribute 'value'")
    ELSE IF afk # None /\ "id" \notin DOMAIN afk
    THEN Raise("AttributeError", "object has no attribute 'id'")
    ELSE IF sys # None /\ "id" \notin DOMAIN sys
    THEN Raise("AttributeError", "object has no attribute 'id'")
    ELSE IF \E i \in DOMAIN rls : CreateGuildRole_to_dict(rls[i]).exc # "none"
    THEN Raise("AttributeError", "object has no attribute 'value'")
    ELSE NoError

\* a serializer that emits both arrays whether or not they are empty
GuildDict_AlwaysArrays(st, tbl, rls, sys, afk) ==
    LET keys == {"name", "verification_level", "default_message_notifications",
                 "explicit_content_filter"}
                \cup (IF st.icon # MISSING THEN {"icon"} ELSE {})
                \cup (IF st.afk_timeout # None THEN {"afk_timeout"} ELSE {})
                \cup (IF st.system_channel_flags # None THEN {"system_channel_flags"} ELSE {})
                \cup (IF afk # None THEN {"afk_channel_id"} ELSE {})
                \cup (IF sys # None THEN {"system_channel_id"} ELSE {})
                \cup {"channels", "roles"}
    IN [ k \in keys |->
           CASE k = "name" -> st.name
             [] k = "verification_level" -> StrV(st.verification_level.value)
             [] k = "default_message_notifications" -> StrV(st.default_message_notifications.value)
             [] k = "explicit_content_filter" -> StrV(st.explicit_content_filter.value)
             [] k = "icon" -> bytes_to_base64_data(st.icon)
             [] k = "afk_timeout" -> st.afk_timeout
             [] k = "system_channel_flags" -> StrV(st.system_channel_flags.value)
             [] k = "afk_channel_id" -> IntV(afk.id)
             [] k = "system_channel_id" -> IntV(sys.id)
             [] k = "channels" -> [ i \in DOMAIN tbl |-> CreateGuildChannel_to_dict(tbl[i]) ]
             [] OTHER -> [ i \in DOMAIN rls |-> CreateGuildRole_to_dict(rls[i]).dict ] ]

\* CreateGuild._to_dict (lines 286-314) when no attribute access fails
GuildDict(st, tbl, rls, sys, afk) ==
    LET keys == {"name", "verification_level", "default_message_notifications",
                 "explicit_content_filter"}
                \cup (IF st.icon # MISSING THEN {"icon"} ELSE {})
                \cup (IF st.afk_timeout # None THEN {"afk_timeout"} ELSE {})
                \cup (IF st.system_channel_flags # None THEN {"system_channel_flags"} ELSE {})
                \cup (IF afk # None THEN {"afk_channel_id"} ELSE {})
                \cup (IF sys # None THEN {"system_channel_id"} ELSE {})
                \cup (IF tbl # << >> THEN {"channels"} ELSE {})
                \cup (IF rls # << >> THEN {"roles"} ELSE {})
    IN [ k \in keys |->
           CASE k = "name" -> st.name
             [] k = "verification_level" -> StrV(st.verification_level.value)
             [] k = "default_message_notifications" -> StrV(st.default_message_notifications.value)
             [] k = "explicit_content_filter" -> StrV(st.explicit_content_filter.value)
             [] k = "icon" -> bytes_to_base64_data(st.icon)
             [] k = "afk_timeout" -> st.afk_timeout
             [] k = "system_channel_flags" -> StrV(st.system_channel_flags.value)
             [] k = "afk_channel_id" -> IntV(afk.id)
             [] k = "system_channel_id" -> IntV(sys.id)
             [] k = "channels" -> [ i \in DOMAIN tbl |-> CreateGuildChannel_to_dict(tbl[i]) ]
             [] OTHER -> [ i \in DOMAIN rls |-> CreateGuildRole_to_dict(rls[i]).dict ] ]

\* CreateGuild._to_dict: [err, dict]
CreateGuild_to_dict(st, tbl, rls, sys, afk) ==
    IF GuildDictError(st, tbl, rls, sys, afk) # NoError
    THEN [ err |-> GuildDictError(st, tbl, rls, sys, afk), dict |-> EmptyDict ]
    ELSE [ err |-> NoError, dict |-> GuildDict(st, tbl, rls, sys, afk) ]

\* the payload the builder serializes to now
Payload == CreateGuild_to_dict(settings, channels, roles, system_channel, afk_channel)

\* ------------------------------------------------------------- the callers
\* a channel object built directly by the caller (the class is public), in
\* the millisecond the builder is constructed; it is in no builder's table
ForeignChannel ==
    CreateGuildChannel(1, StartMs, text, StrV("elsewhere"), MISSING, MISSING, EmptyDict)

\* a role object built directly by the caller
ForeignRole == CreateGuildRole(2, StartMs, StrV("mods"), EmptyDict)

\* the constructor's defaults (lines 197-204), for a guild named "g"
DefaultArgs ==
    GuildArgs(StrV("g"), MISSING, None, None, None, None,
              Enum("VerificationLevel", "none"),
              Enum("NotificationLevel", "all_messages"),
              Enum("ContentFilter", "disabled"))

\* the channel objects the caller holds
HeldChannels == {ForeignChannel} \cup Range(added_channels)

\* a kwargs dict from the three keywords add_channel reads by name
Kwargs(cat, sysflag, afkflag) ==
    [ k \in (IF cat # MISSING THEN {"category"} ELSE {})
            \cup (IF sysflag # MISSING THEN {"system_channel"} ELSE {})
            \cup (IF afkflag # MISSING THEN {"afk_channel"} ELSE {}) |->
        CASE k = "category" -> cat
          [] k = "system_channel" -> sysflag
          [] OTHER -> afkflag ]

\* add_channel(t, "general", category=cat)
PlainCall(t, cat) ==
    ChannelCall(t, StrV("general"), MISSING, MISSING, Kwargs(cat, MISSING, MISSING))
\* add_channel(t, "general", system_channel=True) and the same with afk_channel
FlagCall(t, key) ==
    ChannelCall(t, StrV("general"), MISSING, MISSING,
                IF key = "system_channel" THEN Kwargs(MISSING, BoolV(TRUE), MISSING)
                ELSE Kwargs(MISSING, MISSING, BoolV(TRUE)))
\* add_channel(t, "general", overwrites=ow, category=cat)
OverwritesCall(t, ow, cat) ==
    ChannelCall(t, StrV("general"), MISSING, ow, Kwargs(cat, MISSING, MISSING))

\* every kind the builder supports, and one it does not
AllTypes == SupportedTypes \cup {news}

\* the kinds of channel added together with add_role and the setters: three
\* that the builder supports and treats differently, and one it does not
HistoryTypes == {text, voice, category, news}

\* overwrites arguments: one entry, and a role entry followed by a member entry
OneOverwrite == Mapping(<< << Snowflake(7), PermissionOverwrite(1, 2) >> >>)
TwoOverwrites ==
    Mapping(<< << ForeignRole, PermissionOverwrite(4, 0) >>,
               << Snowflake(7), PermissionOverwrite(1, 2) >> >>)
\* an overwrites mapping whose value is no PermissionOverwrite
BadOverwrite == Mapping(<< << Snowflake(7), IntV(5) >> >>)

\* the add_channel calls explored together with add_role and the setters:
\* every kind alone, with a foreign category, and with either flag, and a
\* text channel with each overwrites argument
BuilderCalls ==
    { PlainCall(t, cat) : t \in HistoryTypes, cat \in {MISSING, ForeignChannel} }
    \cup { FlagCall(t, key) : t \in HistoryTypes, key \in {"system_channel", "afk_channel"} }
    \cup { OverwritesCall(text, ow, MISSING) : ow \in {Mapping(<< >>), StrV("everyone"), OneOverwrite} }

\* the add_channel calls explored on their own: every kind with every
\* category, with each overwrites argument, and with overwrites and a category
ChannelCalls ==
    { PlainCall(t, cat) : t \in AllTypes, cat \in {MISSING, None} \cup HeldChannels }
    \cup { OverwritesCall(t, ow, MISSING) :
             t \in AllTypes,
             ow \in {Mapping(<< >>), OneOverwrite, TwoOverwrites, BadOverwrite} }
    \cup { OverwritesCall(t, TwoOverwrites, ForeignChannel) : t \in AllTypes }

\* the add_role calls explored: each name and hoist without a colour, and
\* each colour, display_icon and permissions on their own
RoleCalls ==
    { RoleCall(n, MISSING, MISSING, MISSING, h, MISSING, MISSING) :
        n \in {MISSING, StrV("Admins")}, h \in {MISSING, BoolV(TRUE)} }
    \cup
    { RoleCall(StrV("Admins"), MISSING, c[1], c[2], MISSING, MISSING, MISSING) :
        c \in { << IntV(255), MISSING >>, << MISSING, Colour(255) >> } }
    \cup
    { RoleCall(StrV("Admins"), p, IntV(255), MISSING, MISSING, d, MISSING) :
        p \in {MISSING, Permissions(8)},
        d \in {Bytes("png"), StrV("emoji")} }

\* the values assigned to the system_channel / afk_channel properties
ChannelValues == {None, StrV("general")} \cup HeldChannels

\* the extra keyword options explored: options some kind whitelists, the
\* flag add_channel reads by name, and one name no kind knows
OptionNames ==
    { "topic", "bitrate", "rtc_region", "video_quality_mode",
      "default_sort_order", "default_layout", "category", "system_channel", "reason" }

\* the values passed for an option: for an enum-typed one, a member of its
\* enum and a value of another type
OptionValues(k) ==
    CASE k = "topic" -> { StrV("rules") }
      [] k = "bitrate" -> { IntV(64000) }
      [] k = "rtc_region" -> { None, StrV("rotterdam") }
      [] k = "video_quality_mode" -> { Enum("VideoQualityMode", "full"), StrV("full") }
      [] k = "default_sort_order" -> { Enum("ForumOrderType", "latest_activity"), IntV(1) }
      [] k = "default_layout" -> { Enum("ForumLayoutType", "list_view"), StrV("list") }
      [] k = "category" -> {None, ForeignChannel} \cup Range(added_channels)
      [] k = "system_channel" -> { BoolV(TRUE) }
      [] OTHER -> { StrV("moved") }

\* the kwargs dicts of D, and each of them with one more option
OneMoreOption(D) ==
    D \cup UNION { UNION { { Put(kw, k, v) : v \in OptionValues(k) } :
                           k \in OptionNames \ DOMAIN kw } : kw \in D }

\* every kwargs dict of at most n of these options
RECURSIVE KwargsUpTo(_)
KwargsUpTo(n) == IF n = 0 THEN { EmptyDict } ELSE OneMoreOption(KwargsUpTo(n - 1))

OptionKwargs == KwargsUpTo(MaxOptions)

\* the add_channel calls explored for their options: every kind, with and
\* without a position, with every such kwargs; and every kind with an
\* overwrites mapping whose value is no PermissionOverwrite
OptionCalls ==
    { ChannelCall(t, StrV("general"), p, MISSING, kw) :
        t \in AllTypes, p \in {MISSING, IntV(1)}, kw \in OptionKwargs }
    \cup { OverwritesCall(t, BadOverwrite, MISSING) : t \in AllTypes }

\* the constructor calls explored: for each enum-typed argument a member of
\* its class, a falsy value of another type and a truthy one
GuildCalls ==
    { GuildArgs(StrV("g"), MISSING, None, None, None, f, v, n, c) :
        f \in { None, Enum("SystemChannelFlags", "join_notifications"), IntV(0), IntV(3) },
        v \in { Enum("VerificationLevel", "none"), IntV(0), StrV("high") },
        n \in { Enum("NotificationLevel", "all_messages"), IntV(0), StrV("all") },
        c \in { Enum("ContentFilter", "disabled"), IntV(0), StrV("all_members") } }

\* the caller is between two calls
Idle == [op |-> "idle"]

\* what a call may change: the tables and the references
Builder == [ channels |-> channels, roles |-> roles,
             system_channel |-> system_channel, afk_channel |-> afk_channel ]

\* the call `op` with arguments `args` has ended with `err`, having started
\* on the builder as it is now
Done(op, args, err) == [op |-> op, args |-> args, err |-> err, before |-> Builder]

\* one add_channel call with arguments a
AddChannelCall(a) ==
    /\ last = Idle
    /\ \E r \in { add_channel(channels, system_channel, afk_channel, nextOid, now, a) } :
       /\ r.err = NoError => Len(added_channels) < MaxChannels
       /\ channels' = r.channels
       /\ system_channel' = r.system_channel
       /\ afk_channel' = r.afk_channel
       /\ nextOid' = IF r.err = NoError THEN nextOid + 1 ELSE nextOid
       /\ added_channels' = IF r.err = NoError THEN Append(added_channels, r.channel)
                            ELSE added_channels
       /\ last' = Done("add_channel", a, r.err)
       /\ UNCHANGED << now, settings, roles, added_roles, state, requests >>

\* one add_role call with arguments a
AddRoleCall(a) ==
    /\ last = Idle
    /\ \E r \in { add_role(roles, nextOid, now, a) } :
       /\ r.err = NoError => Len(added_roles) < MaxRoles
       /\ roles' = r.roles
       /\ nextOid' = IF r.err = NoError THEN nextOid + 1 ELSE nextOid
       /\ added_roles' = IF r.err = NoError THEN Append(added_roles, r.role) ELSE added_roles
       /\ last' = Done("add_role", a, r.err)
       /\ UNCHANGED << now, settings, channels, system_channel, afk_channel,
                       added_channels, state, requests >>

\* CreateGuild(**a), where no builder exists yet
CreateGuildCall(a) ==
    /\ last = Idle
    /\ \E err \in { CreateGuild_init(a) } :
       /\ settings = None
       /\ settings' = IF err = NoError THEN SettingsOf(a) ELSE settings
       /\ system_channel' = IF err = NoError THEN a.system_channel ELSE system_channel
       /\ afk_channel' = IF err = NoError THEN a.afk_channel ELSE afk_channel
       /\ channels' = << >>
       /\ roles' = << >>
       /\ last' = Done("__init__", a, err)
       /\ UNCHANGED << now, nextOid, added_channels, added_roles, state, requests >>

\* builder.system_channel = v
SetSystemChannelCall(v) ==
    /\ last = Idle
    /\ \E r \in { ChannelSetter(system_channel, v, "system_channel must be a CreateGuildChannel") } :
       /\ system_channel' = r.value
       /\ last' = Done("system_channel", v, r.err)
       /\ UNCHANGED << now, nextOid, settings, channels, roles, afk_channel,
                       added_channels, added_roles, state, requests >>

\* builder.afk_channel = v
SetAfkChannelCall(v) ==
    /\ last = Idle
    /\ \E r \in { ChannelSetter(afk_channel, v, "afk_channel must be a CreateGuildChannel") } :
       /\ afk_channel' = r.value
       /\ last' = Done("afk_channel", v, r.err)
       /\ UNCHANGED << now, nextOid, settings, channels, roles, system_channel,
                       added_channels, added_roles, state, requests >>

\* ------------------------------------------------------------------ actions
\* the clock reaches the next millisecond
Tick ==
    /\ last = Idle
    /\ now < MaxTime
    /\ now' = now + 1
    /\ UNCHANGED << nextOid, settings, channels, roles, system_channel, afk_channel,
                    last, added_channels, added_roles, state, requests >>

\* the caller takes the call's result, or catches its exception, and goes on
Return ==
    /\ last # Idle
    /\ last' = Idle
    /\ UNCHANGED << now, nextOid, settings, channels, roles, system_channel, afk_channel,
                    added_channels, added_roles, state, requests >>

AddChannel == \E a \in BuilderCalls : AddChannelCall(a)

AddAnyChannel == \E a \in ChannelCalls : AddChannelCall(a)

AddRole == \E a \in RoleCalls : AddRoleCall(a)

SetSystemChannel == \E v \in ChannelValues : SetSystemChannelCall(v)

SetAfkChannel == \E v \in ChannelValues : SetAfkChannelCall(v)

\* the builder as CreateGuild(name="g", system_channel=..., afk_channel=...)
\* leaves it
Init ==
    /\ now = StartMs
    /\ nextOid = 3
    /\ \E sys \in {None, ForeignChannel}, afk \in {None, ForeignChannel} :
         LET a == [DefaultArgs EXCEPT !.system_channel = sys, !.afk_channel = afk]
         IN /\ CreateGuild_init(a) = NoError
            /\ settings = SettingsOf(a)
            /\ system_channel = a.system_channel
            /\ afk_channel = a.afk_channel
    /\ channels = << >>
    /\ roles = << >>
    /\ last = Idle
    /\ added_channels = << >>
    /\ added_roles = << >>
    /\ state = MISSING
    /\ requests = << >>

Next == Tick \/ AddChannel \/ AddRole \/ SetSystemChannel \/ SetAfkChannel \/ Return

Spec == Init /\ [][Next]_vars

\* a builder constructed with the defaults, on which only add_channel is called
InitChannels == Init /\ system_channel = None /\ afk_channel = None

NextChannels == Tick \/ AddAnyChannel \/ Return

SpecChannels == InitChannels /\ [][NextChannels]_vars

\* the constructor is called, then on a builder made with the defaults a
\* category is added, and then one channel with extra options
NewGuild == \E a \in GuildCalls : CreateGuildCall(a)

AddFirstCategory ==
    /\ settings = SettingsOf(DefaultArgs)
    /\ channels = << >>
    /\ AddChannelCall(PlainCall(category, MISSING))

AddChannelWithOptions ==
    /\ settings = SettingsOf(DefaultArgs)
    /\ Len(added_channels) = 1
    /\ \E a \in OptionCalls : AddChannelCall(a)

InitOptions ==
    /\ now = StartMs
    /\ nextOid = 3
    /\ settings = None
    /\ system_channel = None
    /\ afk_channel = None
    /\ channels = << >>
    /\ roles = << >>
    /\ last = Idle
    /\ added_channels = << >>
    /\ added_roles = << >>
    /\ state = MISSING
    /\ requests = << >>

NextOptions == Tick \/ NewGuild \/ AddFirstCategory \/ AddChannelWithOptions \/ Return

SpecOptions == InitOptions /\ [][NextOptions]_vars

\* ------------------------------------------- CreateGuild.create / __await__
\* the connection state _with_state (lines 237-239) gives the builder
ConnectionState == [kind |-> "ConnectionState"]

\* the failure the transport raises when the request fails
HTTPException == Raise("HTTPException", "the request failed")

\* what awaiting http.create_guild(**payload) ends with: the created
\* guild's data, or the transport's failure
TransportResponses ==
    { [ err |-> NoError, data |-> StrV("guild data") ],
      [ err |-> HTTPException, data |-> None ] }

\* Guild(data=data, state=self._state) (line 243)
Guild(data, st) == [kind |-> "Guild", data |-> data, state |-> st]

\* a create() that sends the request again when the transport fails
create_Retry(st, payload, response) ==
    IF st = MISSING
    THEN [ err |-> Raise("AttributeError", "object has no attribute 'http'"),
           request |-> << >>, result |-> None ]
    ELSE IF payload.err # NoError
    THEN [ err |-> payload.err, request |-> << >>, result |-> None ]
    ELSE IF response.err # NoError
    THEN [ err |-> response.err, request |-> << payload.dict, payload.dict >>,
           result |-> None ]
    ELSE [ err |-> NoError, request |-> << payload.dict >>,
           result |-> Guild(response.data, st) ]

\* CreateGuild.create (lines 241-243), the transport answering `response`:
\* [err, request, result].  Line 242 looks up self._state.http, then
\* evaluates self._to_dict(), then calls and awaits the transport once.
create(st, payload, response) ==
    IF st = MISSING
    THEN [ err |-> Raise("AttributeError", "object has no attribute 'http'"),
           request |-> << >>, result |-> None ]
    ELSE IF payload.err # NoError
    THEN [ err |-> payload.err, request |-> << >>, result |-> None ]
    ELSE IF response.err # NoError
    THEN [ err |-> response.err, request |-> << payload.dict >>, result |-> None ]
    ELSE [ err |-> NoError, request |-> << payload.dict >>,
           result |-> Guild(response.data, st) ]

\* `await builder` (lines 234-235).  __await__ is declared `async def`, so
\* calling it makes a coroutine object instead of running its body; the
\* await expression refuses a coroutine returned from __await__ and the body,
\* with its call of create(), never runs.
builder_await(st, payload, response) ==
    [ err |-> Raise("TypeError", "__await__() returned a coroutine"),
      request |-> << >>, result |-> None ]

\* the call `op` has ended as r says, the transport having answered
\* `response` if it was asked
Awaited(op, r, response) ==
    [ op |-> op, args |-> None, err |-> r.err, before |-> Builder,
      requests |-> requests,
      response |-> IF r.request = << >> THEN None ELSE response,
      result |-> r.result ]

\* builder._with_state(state)
WithState ==
    /\ last = Idle
    /\ state = MISSING
    /\ state' = ConnectionState
    /\ last' = Done("_with_state", ConnectionState, NoError)
    /\ UNCHANGED << now, nextOid, settings, channels, roles, system_channel, afk_channel,
                    added_channels, added_roles, requests >>

\* await builder.create()
Create ==
    /\ last = Idle
    /\ \E response \in TransportResponses :
         \E r \in { create(state, Payload, response) } :
            /\ Len(requests) + Len(r.request) <= MaxCreates
            /\ requests' = requests \o r.request
            /\ last' = Awaited("create", r, response)
    /\ UNCHANGED << now, nextOid, settings, channels, roles, system_channel, afk_channel,
                    added_channels, added_roles, state >>

\* await builder
AwaitBuilder ==
    /\ last = Idle
    /\ \E response \in TransportResponses :
         \E r \in { builder_await(state, Payload, response) } :
            /\ Len(requests) + Len(r.request) <= MaxCreates
            /\ requests' = requests \o r.request
            /\ last' = Awaited("__await__", r, response)
    /\ UNCHANGED << now, nextOid, settings, channels, roles, system_channel, afk_channel,
                    added_channels, added_roles, state >>

\* the add_channel calls made on a builder that is then created
CreateChannelCalls ==
    { PlainCall(category, MISSING), PlainCall(text, MISSING) }
    \cup { FlagCall(t, key) : t \in {text, voice}, key \in {"system_channel", "afk_channel"} }

\* the values assigned to system_channel / afk_channel on such a builder: a
\* falsy value that is no channel is among them
CreateChannelValues == { None, IntV(0), ForeignChannel }

\* a builder is filled, given a connection state or not, and then created or
\* awaited; it is not changed once a request has been sent
AddChannelToCreate ==
    /\ requests = << >>
    /\ \E a \in CreateChannelCalls : AddChannelCall(a)

SetSystemChannelToCreate ==
    /\ requests = << >>
    /\ \E v \in CreateChannelValues : SetSystemChannelCall(v)

SetAfkChannelToCreate ==
    /\ requests = << >>
    /\ \E v \in CreateChannelValues : SetAfkChannelCall(v)

AddRoleToCreate == requests = << >> /\ AddRole

TickToCreate == requests = << >> /\ Tick

NextCreate ==
    TickToCreate \/ AddChannelToCreate \/ AddRoleToCreate \/ SetSystemChannelToCreate
    \/ SetAfkChannelToCreate \/ WithState \/ Create \/ AwaitBuilder \/ Return

SpecCreate == Init /\ [][NextCreate]_vars

\* ------------------------------------------------------------------ claims
\* the channel the last successful add_channel call returned
NewChannel == added_channels[Len(added_channels)]

\* the call that has just returned is an add_channel call / one that succeeded
ChannelCallReturned == last.op = "add_channel"
ChannelAdded == last.op = "add_channel" /\ last.err = NoError

\* r is empty or a channel the table holds under r's own id
InTable(r) ==
    \/ r = None
    \/ /\ r.kind = "CreateGuildChannel"
       /\ r.id \in Keys(channels)
       /\ Lookup(channels, r.id) = r

\* C1: in every reachable state of a builder, the system-channel reference
\* and the AFK-channel reference are each empty or a channel present in the
\* builder's channel table under its own local id.
C1_ReferencesInTable == InTable(system_channel) /\ InTable(afk_channel)

\* C2: a failed add_channel or add_role call leaves the channel table, the
\* role table and both references exactly as they were before the call.
C2_FailedAddChangesNothing ==
    (last.op \in {"add_channel", "add_role"} /\ last.err # NoError) => Builder = last.before

\* an add_channel call has failed on the category it named, on a builder that
\* holds a channel which is also its system channel
C2_Witness ==
    /\ ChannelCallReturned
    /\ last.err.exc = "ValueError"
    /\ channels # << >>
    /\ system_channel \in Range(channels)

\* C3: the payload's channels array holds one entry for each successful
\* add_channel call, in call order, and its roles array one entry for each
\* successful add_role call: every successful add grows its table by one and
\* replaces no earlier entry, the local ids of the entries being distinct.
C3_OneEntryPerSuccessfulAdd ==
    /\ Len(channels) = Len(added_channels)
    /\ Len(roles) = Len(added_roles)
    /\ \A i, j \in DOMAIN added_channels : added_channels[i].id = added_channels[j].id => i = j
    /\ \A i, j \in DOMAIN added_roles : added_roles[i].id = added_roles[j].id => i = j
    /\ Payload.err = NoError /\ added_channels # << >> =>
         Payload.dict["channels"] =
           [ i \in DOMAIN added_channels |-> CreateGuildChannel_to_dict(added_channels[i]) ]
    /\ Payload.err = NoError /\ added_roles # << >> =>
         Payload.dict["roles"] =
           [ i \in DOMAIN added_roles |-> CreateGuildRole_to_dict(added_roles[i]).dict ]

\* the call that has just returned passed a true `key`
PassedFlag(key) == Truthy(Get(last.args.kwargs, key, BoolV(FALSE)))

\* C4: a successful add_channel of kind text with system_channel=true makes
\* the new channel the system channel, and one of kind voice with
\* afk_channel=true makes it the AFK channel; the payload's system_channel_id
\* (afk_channel_id) is the local id of the channel the reference holds.
C4_FlagSetsReference ==
    /\ (ChannelAdded /\ last.args.channel_type = text /\ PassedFlag("system_channel")) =>
          /\ system_channel = NewChannel
          /\ NewChannel \in Range(channels)
          /\ Payload.dict["system_channel_id"] = IntV(NewChannel.id)
    /\ (ChannelAdded /\ last.args.channel_type = voice /\ PassedFlag("afk_channel")) =>
          /\ afk_channel = NewChannel
          /\ NewChannel \in Range(channels)
          /\ Payload.dict["afk_channel_id"] = IntV(NewChannel.id)
    /\ system_channel # None =>
          Payload.dict["system_channel_id"] = IntV(system_channel.id)
    /\ afk_channel # None =>
          Payload.dict["afk_channel_id"] = IntV(afk_channel.id)

\* a voice channel added with afk_channel=true is the AFK channel, and the
\* text channel just added with system_channel=true has become the system
\* channel in place of an earlier one
C4_Witness ==
    /\ ChannelAdded
    /\ last.args.channel_type = text
    /\ PassedFlag("system_channel")
    /\ last.before.system_channel # None
    /\ system_channel = NewChannel
    /\ afk_channel \in Range(added_channels)
    /\ afk_channel.type = voice
    /\ Payload.dict["system_channel_id"] = IntV(NewChannel.id)

\* the call that has just returned named a channel object as category
PassedCategory == Truthy(Get(last.args.kwargs, "category", MISSING))

\* the local id names no category of the table
NoCategory(tbl, n) ==
    \A i \in DOMAIN tbl : tbl[i].id = n => tbl[i].type # category

\* the overwrites argument is absent or empty, so the category is the first
\* argument add_channel can fault
PlainOverwrites(a) == a.overwrites \in {MISSING, Mapping(<< >>)}

C6_UnsupportedKindFails ==
    (ChannelCallReturned /\ last.args.channel_type \notin SupportedTypes) =>
        /\ last.err # NoError
        /\ channels = last.before.channels
        /\ Len(channels) = Len(last.before.channels)

\* a call with an unsupported kind, a category and overwrites has failed on a
\* builder that holds channels
C6_Witness ==
    /\ ChannelCallReturned
    /\ last.args.channel_type = news
    /\ PassedCategory
    /\ last.args.overwrites = TwoOverwrites
    /\ last.err.exc = "TypeError"
    /\ Len(channels) >= 2

\* C7: a channel added with a non-empty overwrites mapping serializes with
\* permission_overwrites an array holding, in the mapping's order, one record
\* {allow, deny, id, type} per entry, the type being the role type exactly
\* for a role target.
C7_OverwritesSerialized ==
    (/\ ChannelCallReturned
     /\ last.args.channel_type \in SupportedTypes
     /\ ~PassedCategory
     /\ last.args.overwrites \in {OneOverwrite, TwoOverwrites}) =>
        /\ last.err = NoError
        /\ "permission_overwrites" \in DOMAIN CreateGuildChannel_to_dict(NewChannel)
        /\ CreateGuildChannel_to_dict(NewChannel)["permission_overwrites"]
             = perms(last.args.overwrites)

\* the keys every serialized channel may have whatever its options
BaseFields == {"id", "type", "name", "position", "permission_overwrites"}

\* the options the call passed that its kind's whitelist names
PassedWhitelisted ==
    DOMAIN last.args.kwargs \cap Range(kwargs_per_type[last.args.channel_type])

\* a call of a supported kind has returned whose overwrites argument is
\* absent and whose category, if the kind reads it, is none or a category of
\* the table
OptionsCallReturned ==
    /\ ChannelCallReturned
    /\ last.args.channel_type \in SupportedTypes
    /\ last.args.overwrites = MISSING
    /\ \/ last.args.channel_type = category
       \/ ~PassedCategory
       \/ ~NoCategory(last.before.channels, last.args.kwargs["category"].id)

WrongEnum(key, cls) ==
    key \in DOMAIN last.args.kwargs /\ ~IsInstance(last.args.kwargs[key], cls)

\* add_channel part of C9: a wrong-typed video_quality_mode on a voice or
\* stage channel, a wrong-typed default_sort_order or default_layout on a
\* forum channel, or an overwrite value that is no permission overwrite,
\* fails with a type error and changes nothing
C9_OptionsRejected ==
    (/\ ChannelCallReturned
     /\ \/ /\ last.args.channel_type \in {voice, stage_voice}
           /\ WrongEnum("video_quality_mode", "VideoQualityMode")
        \/ /\ last.args.channel_type = forum
           /\ \/ WrongEnum("default_sort_order", "ForumOrderType")
              \/ WrongEnum("default_layout", "ForumLayoutType")
        \/ /\ last.args.channel_type \in SupportedTypes
           /\ last.args.overwrites = BadOverwrite) =>
        /\ last.err.exc = "TypeError"
        /\ Builder = last.before

\* constructor part of C9: a verification level, notification level or
\* content filter that is no member of its enum, or system-channel flags
\* that are neither None nor a flags object, fail with a type error and no
\* builder is made
C9_ConstructorRejects ==
    (/\ last.op = "__init__"
     /\ \/ /\ last.args.system_channel_flags # None
           /\ ~IsInstance(last.args.system_channel_flags, "SystemChannelFlags")
        \/ ~IsInstance(last.args.verification_level, "VerificationLevel")
        \/ ~IsInstance(last.args.default_message_notifications, "NotificationLevel")
        \/ ~IsInstance(last.args.explicit_content_filter, "ContentFilter")) =>
        /\ last.err.exc = "TypeError"
        /\ settings = None

\* C9: a value of the wrong type for an enum-typed option always fails with
\* a type error before any builder state changes, in the constructor and in
\* add_channel.
C9_WrongTypeFails == C9_ConstructorRejects /\ C9_OptionsRejected

\* add_role(name="Admins", hoist=True)
AdminsCall == RoleCall(StrV("Admins"), MISSING, MISSING, MISSING, BoolV(TRUE), MISSING, MISSING)
\* add_role(hoist=True)
UnnamedCall == RoleCall(MISSING, MISSING, MISSING, MISSING, BoolV(TRUE), MISSING, MISSING)

\* the call has stored one role, which serializes to name n, hoist true,
\* permissions "0", the default colour, its id and no other key
DefaultRoleAdded(n) ==
    /\ last.err = NoError
    /\ Len(roles) = Len(last.before.roles) + 1
    /\ LET d == CreateGuildRole_to_dict(roles[Len(roles)])
       IN /\ d.exc = "none"
          /\ DOMAIN d.dict = {"id", "name", "hoist", "permissions", "color"}
          /\ d.dict["name"] = StrV(n)
          /\ d.dict["hoist"] = BoolV(TRUE)
          /\ d.dict["permissions"] = StrV("0")
          /\ d.dict["color"] = IntV(0)

\* C10: add_role with only a name and hoist=true succeeds and adds one role
\* that serializes with that name, hoist true, permissions "0", the default
\* colour and no icon, unicode_emoji, tags or mentionable key; without a name
\* the role's name is "new role".
C10_DefaultRole ==
    /\ (last.op = "add_role" /\ last.args = AdminsCall) => DefaultRoleAdded("Admins")
    /\ (last.op = "add_role" /\ last.args = UnnamedCall) => DefaultRoleAdded("new role")

\* the serialized form of the role the last add_role call stored
NewRoleDict == CreateGuildRole_to_dict(roles[Len(roles)])

\* C11: a role added with display_icon given as bytes serializes with an
\* icon field, the base64 encoding of the bytes, and no unicode_emoji field;
\* one added with display_icon given as a string serializes with a
\* unicode_emoji field equal to the string and no icon field; no serialized
\* role has both.
C11_IconOrEmoji ==
    /\ (last.op = "add_role" /\ last.args.display_icon # MISSING) =>
          /\ last.err = NoError
          /\ Len(roles) = Len(last.before.roles) + 1
          /\ NewRoleDict.exc = "none"
          /\ IF IsInstance(last.args.display_icon, "bytes")
             THEN /\ "icon" \in DOMAIN NewRoleDict.dict
                  /\ NewRoleDict.dict["icon"] = bytes_to_base64_data(last.args.display_icon)
                  /\ "unicode_emoji" \notin DOMAIN NewRoleDict.dict
             ELSE /\ "unicode_emoji" \in DOMAIN NewRoleDict.dict
                  /\ NewRoleDict.dict["unicode_emoji"] = last.args.display_icon
                  /\ "icon" \notin DOMAIN NewRoleDict.dict
    /\ \A i \in DOMAIN roles :
          ~({"icon", "unicode_emoji"} \subseteq DOMAIN CreateGuildRole_to_dict(roles[i]).dict)

\* the requests the transport received during the call that has just returned
Sent == SubSeq(requests, Len(last.requests) + 1, Len(requests))

\* a create() call has returned / has returned after asking the transport
CreateReturned == last.op = "create"
CreateSent == last.op = "create" /\ Sent # << >>

\* d has the key exactly when the table is not empty
KeyIffNonEmpty(d, key, tbl) == key \in DOMAIN d <=> tbl # << >>

\* C12: the serialized guild payload has a channels key exactly when the
\* channel table is non-empty and a roles key exactly when the role table is
\* non-empty; a builder with no channel and no role serializes with neither
\* key.
C12_ArraysOmittedWhenEmpty ==
    /\ Payload.err = NoError =>
          /\ KeyIffNonEmpty(Payload.dict, "channels", channels)
          /\ KeyIffNonEmpty(Payload.dict, "roles", roles)
          /\ "channels" \in DOMAIN Payload.dict =>
                Len(Payload.dict["channels"]) = Len(channels)
    /\ CreateSent =>
          /\ KeyIffNonEmpty(Sent[1], "channels", last.before.channels)
          /\ KeyIffNonEmpty(Sent[1], "roles", last.before.roles)

\* create() has sent the payload of a builder with no channel and no role,
\* and the payload has neither key
C12_Witness ==
    /\ CreateSent
    /\ channels = << >>
    /\ roles = << >>
    /\ "name" \in DOMAIN Sent[1]
    /\ {"channels", "roles"} \cap DOMAIN Sent[1] = {}

\* what the builder serialized to when the call that has just returned began
PayloadBefore ==
    CreateGuild_to_dict(settings, last.before.channels, last.before.roles,
                        last.before.system_channel, last.before.afk_channel)

\* C13: each call of create() invokes the transport's guild-creation call
\* exactly once, with the payload serialized from the builder's state at
\* that moment, and never when the builder has no transport or local
\* serialization fails; a transport failure reaches the caller as it is,
\* with no retry, and the builder's tables and references are unchanged.
C13_TransportOnce ==
    CreateReturned =>
        /\ Builder = last.before
        /\ SubSeq(requests, 1, Len(last.requests)) = last.requests
        /\ IF state = MISSING \/ PayloadBefore.err # NoError
           THEN /\ Sent = << >>
                /\ last.err # NoError
                /\ last.response = None
           ELSE /\ Sent = << PayloadBefore.dict >>
                /\ last.response \in TransportResponses
                /\ last.err = last.response.err
                /\ last.err = NoError => last.result = Guild(last.response.data, state)

\* a second create() on a builder that holds channels has asked the
\* transport once more, and the transport's failure has reached the caller
C13_Witness ==
    /\ CreateSent
    /\ last.err = HTTPException
    /\ Len(last.requests) = 1
    /\ Len(requests) = 2
    /\ channels # << >>
    /\ Sent[1] = Payload.dict

\* a create() on a builder that cannot be serialized has returned
C13_SerializationFailed ==
    /\ CreateReturned
    /\ state # MISSING
    /\ PayloadBefore.err # NoError

\* C14: for a voice or stage_voice channel the rtc_region passed to
\* add_channel appears unchanged as rtc_region in the serialized channel, an
\* explicit None included (the key is present with the value None); when
\* rtc_region is not passed the key is absent.
C14_RtcRegionVerbatim ==
    (OptionsCallReturned /\ last.args.channel_type \in {voice, stage_voice}) =>
        /\ last.err = NoError
        /\ IF "rtc_region" \in DOMAIN last.args.kwargs
           THEN /\ "rtc_region" \in DOMAIN CreateGuildChannel_to_dict(NewChannel)
                /\ CreateGuildChannel_to_dict(NewChannel)["rtc_region"]
                     = last.args.kwargs["rtc_region"]
           ELSE "rtc_region" \notin DOMAIN CreateGuildChannel_to_dict(NewChannel)

\* a stage channel was added under a category with rtc_region=None and
\* serializes with the key rtc_region holding None
C14_Witness ==
    /\ ChannelAdded
    /\ last.args.channel_type = stage_voice
    /\ PassedCategory
    /\ "rtc_region" \in DOMAIN last.args.kwargs
    /\ last.args.kwargs["rtc_region"] = None
    /\ "rtc_region" \in DOMAIN CreateGuildChannel_to_dict(NewChannel)
    /\ CreateGuildChannel_to_dict(NewChannel)["rtc_region"] = None

\* C15: awaiting the builder is equivalent to awaiting create(): from the
\* same state of a builder that has its connection state it makes the same
\* single transport call with the same payload and yields the same guild
\* handle or the same failure.
C15_AwaitIsCreate ==
    (last.op = "__await__" /\ state # MISSING) =>
        /\ Builder = last.before
        /\ \E response \in TransportResponses :
              LET c == create(state, PayloadBefore, response)
              IN /\ last.err = c.err
                 /\ Sent = c.request
                 /\ last.result = c.result

\* entry i of a channels array refers, by parent_id, to another entry of the
\* array that is a category, and is no category itself
ParentIsOtherCategory(arr, i) ==
    /\ arr[i]["type"] # StrV("category")
    /\ \E j \in DOMAIN arr :
         /\ j # i
         /\ arr[j]["id"] = arr[i]["parent_id"]
         /\ arr[j]["type"] = StrV("category")

\* C16: in every payload serialized after any sequence of add_channel calls,
\* each channel entry carrying a parent_id refers to a different entry of
\* the same channels array whose kind is category, and no entry of kind
\* category carries a parent_id.
C16_ParentInPayload ==
    (Payload.err = NoError /\ "channels" \in DOMAIN Payload.dict) =>
        \A i \in DOMAIN Payload.dict["channels"] :
           "parent_id" \in DOMAIN Payload.dict["channels"][i] =>
              ParentIsOtherCategory(Payload.dict["channels"], i)

\* the same, for builders whose channels were all added in different
\* milliseconds
C16_ParentInPayloadDistinctTimes ==
    (\A i, j \in DOMAIN added_channels :
        added_channels[i].id = added_channels[j].id => i = j)
    => C16_ParentInPayload

\* C17: the system-channel reference changes only through its setter or a
\* successful add_channel of kind text with system_channel=true, and the
\* AFK-channel reference only through its setter or a successful add_channel
\* of kind voice with afk_channel=true; add_role, create(), awaiting, and
\* every other add_channel leave both references unchanged; add_role leaves
\* the channel table unchanged, add_channel the role table, and the setters
\* and create() both tables.
C17_ReferencesFramed ==
    /\ last.op = "add_role" =>
          /\ channels = last.before.channels
          /\ system_channel = last.before.system_channel
          /\ afk_channel = last.before.afk_channel
    /\ last.op = "add_channel" =>
          /\ roles = last.before.roles
          /\ system_channel # last.before.system_channel =>
                /\ last.err = NoError
                /\ last.args.channel_type = text
                /\ PassedFlag("system_channel")
          /\ afk_channel # last.before.afk_channel =>
                /\ last.err = NoError
                /\ last.args.channel_type = voice
                /\ PassedFlag("afk_channel")
    /\ last.op = "system_channel" =>
          /\ channels = last.before.channels
          /\ roles = last.before.roles
          /\ afk_channel = last.before.afk_channel
    /\ last.op = "afk_channel" =>
          /\ channels = last.before.channels
          /\ roles = last.before.roles
          /\ system_channel = last.before.system_channel
    /\ last.op \in {"create", "__await__", "_with_state"} => Builder = last.before

\* a voice channel was added with system_channel=true to a builder that has
\* a system channel and an AFK channel, and both references are as before
C17_Witness ==
    /\ ChannelAdded
    /\ last.args.channel_type = voice
    /\ PassedFlag("system_channel")
    /\ last.before.system_channel \in Range(last.before.channels)
    /\ last.before.afk_channel # None
    /\ system_channel = last.before.system_channel
    /\ afk_channel = last.before.afk_channel
    /\ Len(channels) = Len(last.before.channels) + 1

====
